---- MODULE Spec2Model ----
(***************************************************************************)
(* A model of service-worker.js: the install / activate / fetch handlers,  *)
(* the three stale-while-revalidate strategies, the version comparison and *)
(* the client notifications, together with the parts of the host (cache    *)
(* storage, network, clients) the script drives.                           *)
(***************************************************************************)
EXTENDS Integers, Sequences, FiniteSets, Bags, TLC

\* ------------------------------------------------------------------ bounds
\* Number of fetch events the worker receives in one run.
MaxRequests == 2
\* Number of open application instances (clients) the worker controls.
MaxClients == 2
\* Longest version string, in characters, the comparison is checked on.
MaxVerLen == 3

\* --------------------------------------------------------------- constants
CACHE_NAME == "rss-fundacional-v1"

\* Path of the manifest on the raw host, as the characters of the string.
ManifestPath ==
  <<"/", "J", "u", "a", "n", "L", "u", "i", "s", "C", "l", "a", "u", "r", "e",
    "/", "r", "s", "s", "-", "f", "u", "n", "d", "a", "c", "i", "o", "n", "a",
    "l", "/", "m", "a", "i", "n", "/", "m", "a", "n", "i", "f", "e", "s", "t",
    ".", "j", "s", "o", "n">>

\* A URL is its scheme-independent parts: every URL here is https.
MANIFEST_URL ==
  [hostname |-> "raw.githubusercontent.com", pathname |-> ManifestPath]

\* The pre-cached paths, resolved against the worker's own origin.
AppOrigin == "app.example"
CRITICAL_ASSETS ==
  { [hostname |-> AppOrigin, pathname |-> <<"/">>],
    [hostname |-> AppOrigin,
     pathname |-> <<"/", "i", "n", "d", "e", "x", ".", "h", "t", "m", "l">>],
    [hostname |-> AppOrigin,
     pathname |-> <<"/", "s", "t", "y", "l", "e", "s", ".", "c", "s", "s">>],
    [hostname |-> AppOrigin,
     pathname |-> <<"/", "a", "p", "p", ".", "j", "s">>] }

\* ------------------------------------------------------------ JS values
\* A value read from a manifest's version field: absent (null or undefined),
\* a string (its characters) or a number.
Null == [t |-> "null"]
Str(s) == [t |-> "string", s |-> s]
Num(n) == [t |-> "number", n |-> n]

\* JavaScript's ToBoolean, negated: what `!v` is true of.
Falsy(v) ==
  \/ v.t = "null"
  \/ (v.t = "string" /\ v.s = <<>>)
  \/ (v.t = "number" /\ v.n = 0)

\* String.prototype.includes: needle occurs in hay as a contiguous run.
Includes(hay, needle) ==
  \E i \in 1..(Len(hay) - Len(needle) + 1) :
    SubSeq(hay, i, i + Len(needle) - 1) = needle

\* ------------------------------------------------------ version comparison
Digits == <<"0", "1", "2", "3", "4", "5", "6", "7", "8", "9">>
IsDigit(c) == \E d \in 1..10 : Digits[d] = c
DigitVal(c) == (CHOOSE d \in 1..10 : Digits[d] = c) - 1

\* Index of the first "." of s at or after position i, or Len(s) + 1.
RECURSIVE NextDot(_, _)
NextDot(s, i) ==
  IF i > Len(s) THEN Len(s) + 1
  ELSE IF s[i] = "." THEN i
  ELSE NextDot(s, i + 1)

\* String.prototype.split('.'): the segments between the dots; the empty
\* string splits into one empty segment.
RECURSIVE SplitFrom(_, _)
SplitFrom(s, i) ==
  LET j == NextDot(s, i)
  IN  IF j > Len(s) THEN <<SubSeq(s, i, Len(s))>>
      ELSE <<SubSeq(s, i, j - 1)>> \o SplitFrom(s, j + 1)

Split(s) == SplitFrom(s, 1)

\* Decimal value of a run of digits.
RECURSIVE DecimalOf(_)
DecimalOf(seg) ==
  IF seg = <<>> THEN 0
  ELSE 10 * DecimalOf(SubSeq(seg, 1, Len(seg) - 1)) + DigitVal(seg[Len(seg)])

\* Value of a run of hexadecimal digits (of which the strings compared hold
\* the decimal ones only).
RECURSIVE HexOf(_)
HexOf(seg) ==
  IF seg = <<>> THEN 0
  ELSE 16 * HexOf(SubSeq(seg, 1, Len(seg) - 1)) + DigitVal(seg[Len(seg)])

AllDigits(seg) == \A k \in 1..Len(seg) : IsDigit(seg[k])

\* Number(segment), by the grammar of a numeric string: the empty segment is
\* 0, a run of digits its decimal value, "-" and a run of digits the negated
\* value, "0x" and a run of digits the hexadecimal value, anything else NaN
\* (the strings compared hold digits, ".", "x" and "-" only, so exponents,
\* blanks and the other prefixes do not occur).
NumberOf(seg) ==
  IF AllDigits(seg)
  THEN [nan |-> FALSE, val |-> DecimalOf(seg)]
  ELSE IF Len(seg) >= 2 /\ seg[1] = "-" /\ AllDigits(Tail(seg))
  THEN [nan |-> FALSE, val |-> 0 - DecimalOf(Tail(seg))]
  ELSE IF Len(seg) >= 3 /\ seg[1] = "0" /\ seg[2] = "x"
          /\ AllDigits(SubSeq(seg, 3, Len(seg)))
  THEN [nan |-> FALSE, val |-> HexOf(SubSeq(seg, 3, Len(seg)))]
  ELSE [nan |-> TRUE, val |-> 0]

MapNumber(segs) == [k \in 1..Len(segs) |-> NumberOf(segs[k])]

\* `parts[i] || 0`: a missing part, NaN and 0 all give 0.
PartOrZero(parts, i) ==
  IF i > Len(parts) THEN 0
  ELSE IF parts[i].nan THEN 0
  ELSE parts[i].val

Max(a, b) == IF a >= b THEN a ELSE b

\* The loop with a tie reported as newer (a final `return true`).
RECURSIVE CompareFromTieNewer(_, _, _)
CompareFromTieNewer(fresh, cached, i) ==
  IF i > Max(Len(fresh), Len(cached)) THEN TRUE
  ELSE IF PartOrZero(fresh, i) > PartOrZero(cached, i) THEN TRUE
  ELSE IF PartOrZero(fresh, i) < PartOrZero(cached, i) THEN FALSE
  ELSE CompareFromTieNewer(fresh, cached, i + 1)

\* The for loop of isNewerVersion, from index i on.
RECURSIVE CompareFrom(_, _, _)
CompareFrom(fresh, cached, i) ==
  IF i > Max(Len(fresh), Len(cached)) THEN FALSE
  ELSE IF PartOrZero(fresh, i) > PartOrZero(cached, i) THEN TRUE
  ELSE IF PartOrZero(fresh, i) < PartOrZero(cached, i) THEN FALSE
  ELSE CompareFrom(fresh, cached, i + 1)

\* The comparison of the simpler variant, which takes every fresh manifest.
isNewerVersionAlways(freshVersion, cachedVersion) == TRUE

\* The comparison with an absent cached version reported as not newer.
isNewerVersionAbsentNotNewer(freshVersion, cachedVersion) ==
  IF Falsy(cachedVersion) THEN FALSE
  ELSE IF Falsy(freshVersion) THEN FALSE
  ELSE IF freshVersion.t # "string" \/ cachedVersion.t # "string" THEN FALSE
  ELSE CompareFrom(MapNumber(Split(freshVersion.s)),
                   MapNumber(Split(cachedVersion.s)), 1)

\* isNewerVersion(freshVersion, cachedVersion).  A truthy value that is not
\* a string has no split method: the TypeError is caught and gives false.
isNewerVersion(freshVersion, cachedVersion) ==
  IF Falsy(cachedVersion) THEN TRUE
  ELSE IF Falsy(freshVersion) THEN FALSE
  ELSE IF freshVersion.t # "string" \/ cachedVersion.t # "string" THEN FALSE
  ELSE CompareFrom(MapNumber(Split(freshVersion.s)),
                   MapNumber(Split(cachedVersion.s)), 1)

\* --------------------------------------------------------------- responses
\* A response body: its text, whether it parses as JSON, and the version
\* field of the parsed object (Null when the field is missing).
Body(text, parses, version) ==
  [text |-> text, parses |-> parses, version |-> version]

Response(status, body) == [status |-> status, body |-> body]

\* "No response": what cache.match resolves with when nothing matches.
None == Response(0, Body("", FALSE, Null))

\* Bodies the network serves: a document that is not JSON (a feed, a script)
\* and manifests of two versions.
FeedBody == Body("rss", FALSE, Null)
ManifestBody(v) == Body("manifest", TRUE, v)
ManifestBodies == {ManifestBody(Str(<<"1">>)), ManifestBody(Str(<<"2">>))}

NotFound == Response(404, Body("not found", FALSE, Null))

\* What install's addAll stores for a critical asset.
AppShell == Response(200, Body("app shell", FALSE, Null))

\* new Response(text, { status: 503 })
Unavailable(text) == Response(503, Body(text, FALSE, Null))

\* ----------------------------------------------------------------- requests
RawHost == "raw.githubusercontent.com"
FeedURL ==
  [hostname |-> RawHost,
   pathname |-> <<"/", "f", "e", "e", "d", "s", "/", "r", "s", "s", ".", "x", "m", "l">>]
AppJsURL ==
  [hostname |-> AppOrigin, pathname |-> <<"/", "a", "p", "p", ".", "j", "s">>]

RequestURLs == {FeedURL, MANIFEST_URL, AppJsURL}

\* What a network fetch of a URL can resolve with: the manifest URL serves
\* manifests, the others a document; any of them may answer 404.
NetResponses(u) ==
  {Response(200, b) : b \in IF u = MANIFEST_URL THEN ManifestBodies ELSE {FeedBody}}
    \cup {NotFound}
Methods == {"GET", "POST"}
CacheKeys == RequestURLs \cup CRITICAL_ASSETS

NoRequest == [method |-> "", url |-> [hostname |-> "", pathname |-> <<>>]]

Procs == 1..MaxRequests
Clients == 1..MaxClients

\* Namespaces other scripts or earlier generations may have left behind.
OldCacheNames == {"rss-fundacional-v0", "other-cache"}

\* The fetch listener's if / else if / else: which strategy takes the
\* request.  url.href === MANIFEST_URL is equality of the whole URL.
Classify(url) ==
  IF url.hostname = RawHost /\ Includes(url.pathname, <<"r", "s", "s">>)
  THEN "feed"
  ELSE IF url = MANIFEST_URL THEN "manifest"
  ELSE "generic"

\* ------------------------------------------------------------------- state
VARIABLES
  swState,            \* the worker's lifecycle state
  skipWaitingCalled,  \* self.skipWaiting() has been called
  claimed,            \* self.clients.claim() has been called
  installPc,          \* position of the install handler's promise chain
  activatePc,         \* position of the activate handler's promise chain
  deleteCalls,        \* the names caches.delete was called with (Promise.all's array)
  pendingDeletes,     \* the caches.delete calls not yet settled
  cacheNames,         \* the namespaces of the cache storage
  cache,              \* the entries of namespace CACHE_NAME, by URL
  cacheWriter,        \* per URL, whose write the entry is (0: none, -1: install)
  pc,                 \* per request, the position of its strategy function
  request,            \* per request, its method and URL
  strategy,           \* per request, the strategy the listener chose
  cachedResponse,     \* per request, the local cachedResponse of the try block
  cachedVersion,      \* per request, the local cachedVersion (manifest)
  cachedFrom,         \* per request, the writer of the entry it read
  fetchState,         \* per request, the promise returned by fetch(request)
  thenPc,             \* per request, the position of the .then callback
  respondWith,        \* per request, the promise passed to respondWith
  putState,           \* per request, the promise returned by cache.put
  notifyState,        \* per request, the position of its notification
  messages,           \* bag of the messages posted to the clients
  unhandled,          \* promises rejected with no handler attached
  pureFresh,          \* version comparison: first argument
  pureCached,         \* version comparison: second argument
  pureResult          \* version comparison: the results

lifeVars ==
  <<swState, skipWaitingCalled, claimed, installPc, activatePc, deleteCalls,
    pendingDeletes, cacheNames>>
storeVars == <<cache, cacheWriter>>
procVars ==
  <<pc, request, strategy, cachedResponse, cachedVersion, cachedFrom,
    fetchState, thenPc, respondWith, putState, notifyState>>
outVars == <<messages, unhandled>>
pureVars == <<pureFresh, pureCached, pureResult>>
vars == <<lifeVars, storeVars, procVars, outVars, pureVars>>

\* Promise states.
NoFetch == [st |-> "none", response |-> None]
PendingFetch == [st |-> "pending", response |-> None]
RejectedFetch == [st |-> "rejected", response |-> None]
ResolvedFetch(resp) == [st |-> "resolved", response |-> resp]

NotResponded == [st |-> "none", response |-> None, fetchWas |-> "none"]

\* ---------------------------------------------------------- initial states
\* No request yet, nothing posted.
ProcInit ==
  /\ pc = [r \in Procs |-> "idle"]
  /\ request = [r \in Procs |-> NoRequest]
  /\ strategy = [r \in Procs |-> "none"]
  /\ cachedResponse = [r \in Procs |-> None]
  /\ cachedVersion = [r \in Procs |-> Null]
  /\ cachedFrom = [r \in Procs |-> 0]
  /\ fetchState = [r \in Procs |-> NoFetch]
  /\ thenPc = [r \in Procs |-> "none"]
  /\ respondWith = [r \in Procs |-> NotResponded]
  /\ putState = [r \in Procs |-> "none"]
  /\ notifyState = [r \in Procs |-> "none"]
  /\ messages = EmptyBag
  /\ unhandled = {}

PureIdle ==
  /\ pureFresh = Null
  /\ pureCached = Null
  /\ pureResult = [done |-> FALSE, newer |-> FALSE, reverse |-> FALSE]

\* The script has just been registered: the storage holds whatever
\* namespaces earlier generations left; this generation's is empty if present.
Init ==
  /\ swState = "parsed"
  /\ skipWaitingCalled = FALSE
  /\ claimed = FALSE
  /\ installPc = "none"
  /\ activatePc = "none"
  /\ deleteCalls = {}
  /\ pendingDeletes = {}
  /\ cacheNames \in SUBSET (OldCacheNames \cup {CACHE_NAME})
  /\ cache = [u \in CacheKeys |-> None]
  /\ cacheWriter = [u \in CacheKeys |-> 0]
  /\ ProcInit
  /\ PureIdle

\* ---------------------------------------------------------------- install
\* The install listener: waitUntil(caches.open(...)...) and skipWaiting().
InstallEvent ==
  /\ swState = "parsed"
  /\ swState' = "installing"
  /\ installPc' = "open"
  /\ skipWaitingCalled' = TRUE
  /\ UNCHANGED <<claimed, activatePc, deleteCalls, pendingDeletes, cacheNames>>
  /\ UNCHANGED <<storeVars, procVars, outVars, pureVars>>

\* caches.open(CACHE_NAME) resolves: the namespace exists from now on.
InstallOpen ==
  /\ installPc = "open"
  /\ installPc' = "addAll"
  /\ cacheNames' = cacheNames \cup {CACHE_NAME}
  /\ UNCHANGED <<swState, skipWaitingCalled, claimed, activatePc, deleteCalls,
                 pendingDeletes>>
  /\ UNCHANGED <<storeVars, procVars, outVars, pureVars>>

\* An install chain without the catch: addAll's rejection reaches waitUntil.
WaitUntilOutcomeNoCatch(addAllOk) == IF addAllOk THEN "resolved" ELSE "rejected"

\* How the promise given to waitUntil settles: cache.addAll(...).catch(...)
\* resolves whether addAll resolved or rejected, the handler only logging.
WaitUntilOutcome(addAllOk) == "resolved"

\* cache.addAll(CRITICAL_ASSETS) settles: all assets stored, or none and the
\* rejection is caught and logged.  The worker is installed when the promise
\* given to waitUntil resolves, and discarded when it rejects.
InstallAddAll ==
  /\ installPc = "addAll"
  /\ \E ok \in BOOLEAN :
       /\ cache' = IF ok
                   THEN [u \in CacheKeys |->
                           IF u \in CRITICAL_ASSETS THEN AppShell ELSE cache[u]]
                   ELSE cache
       /\ cacheWriter' = IF ok
                         THEN [u \in CacheKeys |->
                                 IF u \in CRITICAL_ASSETS THEN -1 ELSE cacheWriter[u]]
                         ELSE cacheWriter
       /\ installPc' = IF WaitUntilOutcome(ok) = "resolved" THEN "done" ELSE "failed"
       /\ swState' = IF WaitUntilOutcome(ok) = "resolved"
                     THEN "installed" ELSE "redundant"
  /\ UNCHANGED <<skipWaitingCalled, claimed, activatePc, deleteCalls, pendingDeletes,
                 cacheNames>>
  /\ UNCHANGED <<procVars, outVars, pureVars>>

\* --------------------------------------------------------------- activate
\* A namespace the activate handler keeps whatever its name.
ShouldDeleteNone(cacheName) == FALSE

\* cacheName !== CACHE_NAME
ShouldDelete(cacheName) == cacheName # CACHE_NAME

\* The activate listener: waitUntil(caches.keys()...) and clients.claim().
\* skipWaiting was called, so the installed worker activates at once.
ActivateEvent ==
  /\ swState = "installed"
  /\ skipWaitingCalled
  /\ swState' = "activating"
  /\ activatePc' = "keys"
  /\ claimed' = TRUE
  /\ UNCHANGED <<skipWaitingCalled, installPc, deleteCalls, pendingDeletes, cacheNames>>
  /\ UNCHANGED <<storeVars, procVars, outVars, pureVars>>

\* caches.keys() resolves: a delete is issued for every name to purge.
ActivateKeys ==
  /\ activatePc = "keys"
  /\ activatePc' = "deleting"
  /\ deleteCalls' = {n \in cacheNames : ShouldDelete(n)}
  /\ pendingDeletes' = {n \in cacheNames : ShouldDelete(n)}
  /\ UNCHANGED <<swState, skipWaitingCalled, claimed, installPc, cacheNames>>
  /\ UNCHANGED <<storeVars, procVars, outVars, pureVars>>

\* One caches.delete(cacheName) settles.
CacheDelete(n) ==
  /\ activatePc = "deleting"
  /\ n \in pendingDeletes
  /\ pendingDeletes' = pendingDeletes \ {n}
  /\ cacheNames' = cacheNames \ {n}
  /\ UNCHANGED <<swState, skipWaitingCalled, claimed, installPc, activatePc,
                 deleteCalls>>
  /\ UNCHANGED <<storeVars, procVars, outVars, pureVars>>

\* Every delete has settled, so Promise.all resolves and with it the promise
\* given to waitUntil: the worker is activated, the callback's array is gone.
ActivateDone ==
  /\ activatePc = "deleting"
  /\ pendingDeletes = {}
  /\ activatePc' = "done"
  /\ swState' = "activated"
  /\ deleteCalls' = {}
  /\ UNCHANGED <<skipWaitingCalled, claimed, installPc, pendingDeletes, cacheNames>>
  /\ UNCHANGED <<storeVars, procVars, outVars, pureVars>>

\* ------------------------------------------------------------ fetch events
\* The fetch listener: classify the URL and hand the strategy's promise to
\* respondWith.  Fetch events reach the worker once it is activated; the
\* requests are numbered in the order they arrive.
FetchEvent(r, m, u) ==
  /\ swState = "activated"
  /\ pc[r] = "idle"
  /\ \A q \in Procs : q < r => pc[q] # "idle"
  /\ request' = [request EXCEPT ![r] = [method |-> m, url |-> u]]
  /\ strategy' = [strategy EXCEPT ![r] = Classify(u)]
  /\ pc' = [pc EXCEPT ![r] = "open"]
  /\ respondWith' = [respondWith EXCEPT ![r] =
                       [st |-> "pending", response |-> None, fetchWas |-> "none"]]
  /\ UNCHANGED <<cachedResponse, cachedVersion, cachedFrom, fetchState, thenPc,
                 putState, notifyState>>
  /\ UNCHANGED <<lifeVars, storeVars, outVars, pureVars>>

\* await caches.open(CACHE_NAME), the first line of each strategy.
CacheOpen(r) ==
  /\ pc[r] = "open"
  /\ pc' = [pc EXCEPT ![r] = "match"]
  /\ cacheNames' = cacheNames \cup {CACHE_NAME}
  /\ UNCHANGED <<swState, skipWaitingCalled, claimed, installPc, activatePc,
                 deleteCalls, pendingDeletes>>
  /\ UNCHANGED <<request, strategy, cachedResponse, cachedVersion, cachedFrom,
                 fetchState, thenPc, respondWith, putState, notifyState>>
  /\ UNCHANGED <<storeVars, outVars, pureVars>>

\* cache.match(request): the entry stored under the URL; a request that is
\* not a GET matches nothing.
CacheLookup(req) == IF req.method = "GET" THEN cache[req.url] ELSE None

\* A strategy that waits for the fetch whatever the cache holds.
ReturnAwaitingFetch(cached) ==
  [st |-> "following", response |-> None, fetchWas |-> "none"]

\* return cachedResponse || fetchPromise: with a cached response the promise
\* given to respondWith resolves at once, the fetch still pending; without,
\* it follows fetchPromise.
StrategyReturn(cached) ==
  IF cached # None
  THEN [st |-> "resolved", response |-> cached, fetchWas |-> "pending"]
  ELSE [st |-> "following", response |-> None, fetchWas |-> "none"]

\* const fetchPromise = fetch(request).then(...); return ...: the fetch is
\* started and the function returns, in one synchronous run.
StartFetchAndReturn(r, cached) ==
  /\ fetchState' = [fetchState EXCEPT ![r] = PendingFetch]
  /\ respondWith' = [respondWith EXCEPT ![r] = StrategyReturn(cached)]
  /\ pc' = [pc EXCEPT ![r] = "returned"]

\* await cache.match(request) in the try block settles.  On success the
\* generic and feed strategies go on to start the fetch and return; the
\* manifest strategy first parses a cached manifest.  A rejection enters
\* the catch block.
CacheMatch(r) ==
  /\ pc[r] = "match"
  /\ \E ok \in BOOLEAN :
       IF ok
       THEN LET cached == CacheLookup(request[r])
            IN  /\ cachedResponse' = [cachedResponse EXCEPT ![r] = cached]
                /\ cachedFrom' = [cachedFrom EXCEPT ![r] =
                                    IF request[r].method = "GET"
                                    THEN cacheWriter[request[r].url] ELSE 0]
                /\ IF strategy[r] = "manifest" /\ cached # None
                   THEN /\ pc' = [pc EXCEPT ![r] = "parseCached"]
                        /\ UNCHANGED <<fetchState, respondWith>>
                   ELSE StartFetchAndReturn(r, cached)
       ELSE /\ pc' = [pc EXCEPT ![r] = "catch"]
            /\ UNCHANGED <<cachedResponse, cachedFrom, fetchState, respondWith>>
  /\ UNCHANGED <<request, strategy, cachedVersion, thenPc, putState, notifyState>>
  /\ UNCHANGED <<lifeVars, storeVars, outVars, pureVars>>

\* The body of the synthetic 503 of each strategy.
UnavailableText(s) ==
  CASE s = "feed" -> "Feed unavailable"
    [] s = "manifest" -> "Manifest unavailable"
    [] OTHER -> "Resource unavailable"

\* The catch block: await cache.match(request) again; the cached entry, the
\* synthetic 503, or (the second match rejecting too) a rejection.
CatchMatch(r) ==
  /\ pc[r] = "catch"
  /\ \E ok \in BOOLEAN :
       respondWith' = [respondWith EXCEPT ![r] =
         IF ok
         THEN [st |-> "resolved",
               response |-> IF CacheLookup(request[r]) # None
                            THEN CacheLookup(request[r])
                            ELSE Unavailable(UnavailableText(strategy[r])),
               fetchWas |-> fetchState[r].st]
         ELSE [st |-> "rejected", response |-> None, fetchWas |-> fetchState[r].st]]
  /\ pc' = [pc EXCEPT ![r] = "returned"]
  /\ UNCHANGED <<request, strategy, cachedResponse, cachedVersion, cachedFrom,
                 fetchState, thenPc, putState, notifyState>>
  /\ UNCHANGED <<lifeVars, storeVars, outVars, pureVars>>

\* The manifest strategy's await cachedResponse.clone().json(): the cached
\* version, or null when the cached body does not parse; then the fetch.
ParseCached(r) ==
  /\ pc[r] = "parseCached"
  /\ cachedVersion' = [cachedVersion EXCEPT ![r] =
                         IF cachedResponse[r].body.parses
                         THEN cachedResponse[r].body.version ELSE Null]
  /\ StartFetchAndReturn(r, cachedResponse[r])
  /\ UNCHANGED <<request, strategy, cachedResponse, cachedFrom, thenPc, putState,
                 notifyState>>
  /\ UNCHANGED <<lifeVars, storeVars, outVars, pureVars>>

\* ------------------------------------------------------- fetch settlement
\* A generic strategy that caches every response but the successful ones.
ShouldCacheGenericNon200(req, response) ==
  req.method = "GET" /\ response.status # 200

\* request.method === 'GET' && response.status === 200
ShouldCacheGeneric(req, response) ==
  req.method = "GET" /\ response.status = 200

\* A feed strategy that notifies whatever the status.
ShouldCacheFeedAlways(response) == TRUE

\* response.status === 200, the feed strategy's only test before it caches
\* and notifies.
ShouldCacheFeed(response) == response.status = 200

\* cache.put(request, response): the store takes GET requests only; for any
\* other method the returned promise rejects.
PutOutcome(req) == IF req.method = "GET" THEN "pending" ELSE "rejected"

\* A promise given to respondWith that takes fetchPromise's outcome even
\* after a cached response was returned.
SettledByFetch(rw, st, resp) == [st |-> st, response |-> resp, fetchWas |-> st]

\* The promise given to respondWith once fetchPromise has settled: it takes
\* fetchPromise's outcome if it follows it, and is untouched otherwise.
Settled(rw, st, resp) ==
  IF rw.st = "following"
  THEN [st |-> st, response |-> resp, fetchWas |-> st]
  ELSE rw

\* The end of a .then callback: what it put and announced, and its returned
\* response resolving fetchPromise.  A put or a rejection nobody handles is
\* recorded.
CompleteThen(r, resp, doPut, doNotify) ==
  /\ putState' = [putState EXCEPT ![r] =
                    IF doPut THEN PutOutcome(request[r]) ELSE "none"]
  /\ notifyState' = [notifyState EXCEPT ![r] =
                       IF doNotify THEN "matchAll" ELSE "none"]
  /\ unhandled' = IF doPut /\ PutOutcome(request[r]) = "rejected"
                  THEN unhandled \cup {[proc |-> r, promise |-> "cache.put"]}
                  ELSE unhandled
  /\ respondWith' = [respondWith EXCEPT ![r] = Settled(@, "resolved", resp)]
  /\ thenPc' = [thenPc EXCEPT ![r] = "done"]

\* fetch(request) rejects: the callback is skipped and fetchPromise rejects.
\* Nothing awaits fetchPromise inside the try block, so the rejection goes
\* to the promise given to respondWith when that follows fetchPromise, and
\* to nobody when a cached response was returned.
FetchReject(r) ==
  /\ fetchState[r].st = "pending"
  /\ fetchState' = [fetchState EXCEPT ![r] = RejectedFetch]
  /\ thenPc' = [thenPc EXCEPT ![r] = "done"]
  /\ respondWith' = [respondWith EXCEPT ![r] = Settled(@, "rejected", None)]
  /\ unhandled' = IF respondWith[r].st = "following"
                  THEN unhandled
                  ELSE unhandled \cup {[proc |-> r, promise |-> "fetchPromise"]}
  /\ UNCHANGED <<pc, request, strategy, cachedResponse, cachedVersion, cachedFrom,
                 putState, notifyState, messages>>
  /\ UNCHANGED <<lifeVars, storeVars, pureVars>>

\* fetch(request) resolves with a response and the .then callback runs.
\* The generic and feed callbacks finish in the same run; the manifest
\* callback, on a 200, first awaits the parse of the fresh body.
FetchResolve(r, resp) ==
  /\ fetchState[r].st = "pending"
  /\ fetchState' = [fetchState EXCEPT ![r] = ResolvedFetch(resp)]
  /\ IF strategy[r] = "manifest" /\ resp.status = 200
     THEN /\ thenPc' = [thenPc EXCEPT ![r] = "parseFresh"]
          /\ UNCHANGED <<respondWith, putState, notifyState, unhandled>>
     ELSE CASE strategy[r] = "feed" ->
                 CompleteThen(r, resp, ShouldCacheFeed(resp), ShouldCacheFeed(resp))
            [] strategy[r] = "generic" ->
                 CompleteThen(r, resp, ShouldCacheGeneric(request[r], resp), FALSE)
            [] OTHER -> CompleteThen(r, resp, FALSE, FALSE)
  /\ UNCHANGED <<pc, request, strategy, cachedResponse, cachedVersion, cachedFrom,
                 messages>>
  /\ UNCHANGED <<lifeVars, storeVars, pureVars>>

\* A manifest callback that drops a body it cannot parse.
ManifestCallbackDropUnparsed(resp, cachedV) ==
  IF resp.body.parses
  THEN [put |-> isNewerVersion(resp.body.version, cachedV),
        notify |-> isNewerVersion(resp.body.version, cachedV)]
  ELSE [put |-> FALSE, notify |-> FALSE]

\* What the manifest callback does with a 200 response: the try block puts
\* and notifies when isNewerVersion(freshVersion, cachedVersion); its catch
\* block, entered when the body does not parse, puts only.
ManifestCallback(resp, cachedV) ==
  IF resp.body.parses
  THEN [put |-> isNewerVersion(resp.body.version, cachedV),
        notify |-> isNewerVersion(resp.body.version, cachedV)]
  ELSE [put |-> TRUE, notify |-> FALSE]

\* The manifest callback after await response.clone().json(): a parsed
\* manifest is cached and announced when its version is newer than the
\* cached one; a body that does not parse is cached without announcement.
ParseFresh(r) ==
  /\ thenPc[r] = "parseFresh"
  /\ LET resp == fetchState[r].response
         does == ManifestCallback(resp, cachedVersion[r])
     IN  CompleteThen(r, resp, does.put, does.notify)
  /\ UNCHANGED <<pc, request, strategy, cachedResponse, cachedVersion, cachedFrom,
                 fetchState, messages>>
  /\ UNCHANGED <<lifeVars, storeVars, pureVars>>

\* A cache.put issued by a callback lands: the entry under the request's URL
\* is replaced by the response that was fetched.
PutLand(r) ==
  /\ putState[r] = "pending"
  /\ putState' = [putState EXCEPT ![r] = "landed"]
  /\ cache' = [cache EXCEPT ![request[r].url] = fetchState[r].response]
  /\ cacheWriter' = [cacheWriter EXCEPT ![request[r].url] = r]
  /\ UNCHANGED <<pc, request, strategy, cachedResponse, cachedVersion, cachedFrom,
                 fetchState, thenPc, respondWith, notifyState>>
  /\ UNCHANGED <<lifeVars, outVars, pureVars>>

\* ------------------------------------------------------------ notification
\* The messages with the two versions of the manifest message exchanged.
MessageForSwapped(r, c) ==
  IF strategy[r] = "feed"
  THEN [type |-> "FEED_UPDATED", client |-> c, fetchOf |-> r,
        url |-> request[r].url]
  ELSE [type |-> "MANIFEST_VERSION_UPDATED", client |-> c, fetchOf |-> r,
        newVersion |-> cachedVersion[r],
        oldVersion |-> fetchState[r].response.body.version]

\* The message notifyClientsOfUpdate / notifyClientsOfVersionUpdate posts to
\* client c for request r (fetchOf stands for the message's timestamp: it
\* tells the broadcasts of different fetches apart).
MessageFor(r, c) ==
  IF strategy[r] = "feed"
  THEN [type |-> "FEED_UPDATED", client |-> c, fetchOf |-> r,
        url |-> request[r].url]
  ELSE [type |-> "MANIFEST_VERSION_UPDATED", client |-> c, fetchOf |-> r,
        newVersion |-> fetchState[r].response.body.version,
        oldVersion |-> cachedVersion[r]]

\* self.clients.matchAll() resolves: one postMessage per client.
Deliver(r) ==
  /\ notifyState[r] = "matchAll"
  /\ notifyState' = [notifyState EXCEPT ![r] = "delivered"]
  /\ messages' = messages (+) SetToBag({MessageFor(r, c) : c \in Clients})
  /\ UNCHANGED <<pc, request, strategy, cachedResponse, cachedVersion, cachedFrom,
                 fetchState, thenPc, respondWith, putState, unhandled>>
  /\ UNCHANGED <<lifeVars, storeVars, pureVars>>

\* ----------------------------------------------------------- specification
Next ==
  \/ InstallEvent
  \/ InstallOpen
  \/ InstallAddAll
  \/ ActivateEvent
  \/ ActivateKeys
  \/ \E n \in OldCacheNames \cup {CACHE_NAME} : CacheDelete(n)
  \/ ActivateDone
  \/ \E r \in Procs, m \in Methods, u \in RequestURLs : FetchEvent(r, m, u)
  \/ \E r \in Procs : CacheOpen(r)
  \/ \E r \in Procs : CacheMatch(r)
  \/ \E r \in Procs : CatchMatch(r)
  \/ \E r \in Procs : FetchReject(r)
  \/ \E r \in Procs : \E resp \in NetResponses(request[r].url) : FetchResolve(r, resp)
  \/ \E r \in Procs : PutLand(r)
  \/ \E r \in Procs : Deliver(r)

Spec == Init /\ [][Next]_vars

\* The worker receiving requests for a resource of the generic strategy only
\* (requests for other URLs use other cache keys and other strategies).
GenericNext ==
  \/ InstallEvent
  \/ InstallOpen
  \/ InstallAddAll
  \/ ActivateEvent
  \/ ActivateKeys
  \/ \E n \in OldCacheNames \cup {CACHE_NAME} : CacheDelete(n)
  \/ ActivateDone
  \/ \E r \in Procs, m \in Methods : FetchEvent(r, m, AppJsURL)
  \/ \E r \in Procs : CacheOpen(r)
  \/ \E r \in Procs : CacheMatch(r)
  \/ \E r \in Procs : CatchMatch(r)
  \/ \E r \in Procs : FetchReject(r)
  \/ \E r \in Procs : \E resp \in NetResponses(request[r].url) : FetchResolve(r, resp)
  \/ \E r \in Procs : PutLand(r)

\* The store carries out every put it has accepted.
GenericLiveSpec ==
  Init /\ [][GenericNext]_vars /\ \A r \in Procs : WF_vars(PutLand(r))

\* ------------------------------------------ the comparison on its own
\* Characters of the version strings compared: digits, the dot, and a
\* character Number() cannot parse.
VerAlphabet == {"0", "1", "2", ".", "x"}

StringsUpTo(n) == UNION {[1..k -> VerAlphabet] : k \in 0..n}

\* The version strings of the documented examples, and one with a signed
\* segment.
ExampleVersions ==
  { <<"1", ".", "2", ".", "3">>, <<"1", ".", "2", ".", "4">>,
    <<"1", ".", "3", ".", "0">>, <<"1", ".", "2", ".", "9">>,
    <<"1", ".", "2", ".", "0">>, <<"1", ".", "0", ".", "0">>,
    <<"1", ".", "-", "1">> }

\* The arguments isNewerVersion is called with: absent, a number, any string
\* of up to MaxVerLen characters, or one of the examples.
VersionValues ==
  {Null, Num(2)} \cup {Str(s) : s \in StringsUpTo(MaxVerLen) \cup ExampleVersions}

\* The worker idle, and a pair of versions to compare.
PureInit ==
  /\ swState = "parsed"
  /\ skipWaitingCalled = FALSE
  /\ claimed = FALSE
  /\ installPc = "none"
  /\ activatePc = "none"
  /\ deleteCalls = {}
  /\ pendingDeletes = {}
  /\ cacheNames = {}
  /\ cache = [u \in CacheKeys |-> None]
  /\ cacheWriter = [u \in CacheKeys |-> 0]
  /\ ProcInit
  /\ pureFresh \in VersionValues
  /\ pureCached \in VersionValues
  /\ pureResult = [done |-> FALSE, newer |-> FALSE, reverse |-> FALSE]

\* isNewerVersion applied to the pair, in both orders.
PureCompare ==
  /\ ~pureResult.done
  /\ pureResult' = [done |-> TRUE,
                    newer |-> isNewerVersion(pureFresh, pureCached),
                    reverse |-> isNewerVersion(pureCached, pureFresh)]
  /\ UNCHANGED <<pureFresh, pureCached>>
  /\ UNCHANGED <<lifeVars, storeVars, procVars, outVars>>

PureNext == PureCompare

PureSpec == PureInit /\ [][PureNext]_vars

\* ------------------------------ the manifest strategy called directly
\* The listener never hands a request to staleWhileRevalidateManifest, so its
\* behaviour is examined by calling it with requests for the manifest.

\* What the store may hold for the manifest when the strategy is called: no
\* entry, a manifest of either version, one without a version field, or a
\* body that does not parse.
DirectCachedManifests ==
  {None, Response(200, FeedBody), Response(200, ManifestBody(Null))}
    \cup {Response(200, b) : b \in ManifestBodies}

\* What a fetch may resolve with when the strategy is called directly: as
\* NetResponses, and for the manifest also a manifest without a version and
\* a body that does not parse.
DirectResponses(u) ==
  NetResponses(u) \cup
    (IF u = MANIFEST_URL
     THEN {Response(200, FeedBody), Response(200, ManifestBody(Null))}
     ELSE {})

\* The worker activated, its namespace holding any manifest entry.
DirectInit ==
  /\ swState = "activated"
  /\ skipWaitingCalled = TRUE
  /\ claimed = TRUE
  /\ installPc = "done"
  /\ activatePc = "done"
  /\ deleteCalls = {}
  /\ pendingDeletes = {}
  /\ cacheNames = {CACHE_NAME}
  /\ \E m \in DirectCachedManifests :
       cache = [u \in CacheKeys |-> IF u = MANIFEST_URL THEN m ELSE None]
  /\ cacheWriter = [u \in CacheKeys |-> 0]
  /\ ProcInit
  /\ PureIdle

\* A strategy function called with a request, whatever the listener would
\* have chosen for it.
DirectCall(r, m, u, s) ==
  /\ pc[r] = "idle"
  /\ \A q \in Procs : q < r => pc[q] # "idle"
  /\ request' = [request EXCEPT ![r] = [method |-> m, url |-> u]]
  /\ strategy' = [strategy EXCEPT ![r] = s]
  /\ pc' = [pc EXCEPT ![r] = "open"]
  /\ respondWith' = [respondWith EXCEPT ![r] =
                       [st |-> "pending", response |-> None, fetchWas |-> "none"]]
  /\ UNCHANGED <<cachedResponse, cachedVersion, cachedFrom, fetchState, thenPc,
                 putState, notifyState>>
  /\ UNCHANGED <<lifeVars, storeVars, outVars, pureVars>>

DirectNext ==
  \/ \E r \in Procs, m \in Methods : DirectCall(r, m, MANIFEST_URL, "manifest")
  \/ \E r \in Procs : CacheOpen(r)
  \/ \E r \in Procs : CacheMatch(r)
  \/ \E r \in Procs : CatchMatch(r)
  \/ \E r \in Procs : ParseCached(r)
  \/ \E r \in Procs : FetchReject(r)
  \/ \E r \in Procs : \E resp \in DirectResponses(request[r].url) : FetchResolve(r, resp)
  \/ \E r \in Procs : ParseFresh(r)
  \/ \E r \in Procs : PutLand(r)
  \/ \E r \in Procs : Deliver(r)

DirectSpec == DirectInit /\ [][DirectNext]_vars

\* ================================================================== claims
Started(r) == pc[r] # "idle"

\* The cache read found nothing and the fetch then failed.
NoCacheFetchFailed(r) ==
  /\ Started(r)
  /\ fetchState[r].st = "rejected"
  /\ cachedResponse[r] = None

\* C1: in each strategy, when the cache holds no entry for the request and
\* the network fetch rejects, the requester is handed a synthetic response
\* with status 503 and the strategy's body text ("Resource unavailable",
\* "Feed unavailable", "Manifest unavailable").
C1_Unavailable503 ==
  \A r \in Procs :
    NoCacheFetchFailed(r) =>
      /\ respondWith[r].st = "resolved"
      /\ respondWith[r].response = Unavailable(UnavailableText(strategy[r]))

\* C2: every intercepted request whose URL equals MANIFEST_URL is handled by
\* the manifest strategy and by no other.
C2_ManifestRouted ==
  \A r \in Procs :
    (Started(r) /\ request[r].url = MANIFEST_URL) => strategy[r] = "manifest"

\* C3: no failure escapes: the promise given to respondWith never rejects,
\* and no fetch promise is left rejected without a handler.
C3_NoEscape ==
  /\ \A r \in Procs : respondWith[r].st # "rejected"
  /\ \A x \in unhandled : x.promise # "fetchPromise"

\* C4: every cache write a strategy issues, and every entry a strategy has
\* written, is for a GET request and a response of status 200.
C4_OnlyGet200Written ==
  /\ \A r \in Procs :
       putState[r] # "none" =>
         /\ request[r].method = "GET"
         /\ fetchState[r].response.status = 200
  /\ \A u \in CacheKeys :
       cacheWriter[u] > 0 =>
         /\ request[cacheWriter[u]].method = "GET"
         /\ cache[u].status = 200

\* The generic strategy read an entry for the request from the cache.
GenericCached(r) ==
  /\ strategy[r] = "generic"
  /\ pc[r] = "returned"
  /\ cachedResponse[r] # None

\* C5: when the cache holds an entry for the request, the generic strategy
\* hands that entry to the requester while the fetch it started is still
\* pending, whatever the fetch does afterwards.
C5_CachedServedWhilePending ==
  \A r \in Procs :
    GenericCached(r) =>
      /\ respondWith[r].st = "resolved"
      /\ respondWith[r].response = cachedResponse[r]
      /\ respondWith[r].fetchWas = "pending"
      /\ fetchState[r].st \in {"pending", "resolved", "rejected"}

\* C5 witness: a cached entry served, and the fetch failed afterwards.
C5_Witness ==
  \E r \in Procs :
    /\ GenericCached(r)
    /\ respondWith[r].response = AppShell
    /\ respondWith[r].fetchWas = "pending"
    /\ fetchState[r].st = "rejected"

\* A GET request of the generic strategy whose fetch resolved with a 200.
GenericGet200(r) ==
  /\ strategy[r] = "generic"
  /\ request[r].method = "GET"
  /\ fetchState[r].st = "resolved"
  /\ fetchState[r].response.status = 200

ActivateWorkComplete ==
  \/ swState = "activated"
  \/ (activatePc = "deleting" /\ pendingDeletes = {})

\* C7: once the activate handler's work has completed, whatever namespaces
\* existed before, the only namespace that can remain is CACHE_NAME.
C7_OnlyCurrentRemains ==
  ActivateWorkComplete => cacheNames \subseteq {CACHE_NAME}

\* C7 witness: both old namespaces existed, were deleted, and the current one
\* remains.
C7_Witness ==
  /\ activatePc = "deleting"
  /\ pendingDeletes = {}
  /\ deleteCalls = OldCacheNames
  /\ cacheNames = {CACHE_NAME}

\* The messages posted for the fetch of request r.
MessagesOf(r) == {m \in BagToSet(messages) : m.fetchOf = r}

\* A manifest request whose fetch resolved with a 200 and a version strictly
\* greater than the version cached when the request started.
ManifestNewer(r) ==
  /\ Started(r)
  /\ request[r].url = MANIFEST_URL
  /\ fetchState[r].st = "resolved"
  /\ fetchState[r].response.status = 200
  /\ fetchState[r].response.body.parses
  /\ cachedResponse[r] # None
  /\ cachedResponse[r].body.parses
  /\ fetchState[r].response.body.version.t = "string"
  /\ cachedResponse[r].body.version.t = "string"
  /\ CompareFrom(MapNumber(Split(fetchState[r].response.body.version.s)),
                 MapNumber(Split(cachedResponse[r].body.version.s)), 1)

VersionMsg(r, c) ==
  [type |-> "MANIFEST_VERSION_UPDATED", client |-> c, fetchOf |-> r,
   newVersion |-> fetchState[r].response.body.version,
   oldVersion |-> cachedResponse[r].body.version]

\* C8: when a manifest request's fetch succeeds with a version strictly
\* greater than the cached one, the entry is overwritten with the fresh
\* manifest and exactly one MANIFEST_VERSION_UPDATED broadcast is made for
\* that fetch: once to each client, with newVersion the fresh version and
\* oldVersion the cached one.
C8_VersionBroadcast ==
  \A r \in Procs :
    (ManifestNewer(r) /\ thenPc[r] = "done") =>
      /\ putState[r] \in {"pending", "landed"}
      /\ notifyState[r] \in {"matchAll", "delivered"}
      /\ notifyState[r] = "delivered" =>
           /\ \A c \in Clients : CopiesIn(VersionMsg(r, c), messages) = 1
           /\ MessagesOf(r) = {VersionMsg(r, c) : c \in Clients}

FeedMsg(r, c) ==
  [type |-> "FEED_UPDATED", client |-> c, fetchOf |-> r, url |-> request[r].url]

\* A feed request whose fetch resolved with a 200.
FeedOk(r) ==
  /\ strategy[r] = "feed"
  /\ fetchState[r].st = "resolved"
  /\ fetchState[r].response.status = 200

\* C9: each feed request whose fetch succeeds with status 200 triggers
\* exactly one FEED_UPDATED broadcast, posted once to each client with the
\* request's URL; a feed fetch that fails or is not a 200 triggers none.
C9_FeedBroadcast ==
  \A r \in Procs :
    strategy[r] = "feed" =>
      IF FeedOk(r)
      THEN /\ notifyState[r] \in {"matchAll", "delivered"}
           /\ notifyState[r] = "matchAll" => MessagesOf(r) = {}
           /\ notifyState[r] = "delivered" =>
                /\ \A c \in Clients : CopiesIn(FeedMsg(r, c), messages) = 1
                /\ MessagesOf(r) = {FeedMsg(r, c) : c \in Clients}
      ELSE /\ notifyState[r] = "none"
           /\ MessagesOf(r) = {}

\* C9 witness: a feed fetched with a 200 and its broadcast delivered, beside
\* a feed request answered 404.
C9_Witness ==
  \E r \in Procs : \E q \in Procs :
    /\ FeedOk(r)
    /\ request[r].url = FeedURL
    /\ notifyState[r] = "delivered"
    /\ strategy[q] = "feed"
    /\ fetchState[q].st = "resolved"
    /\ fetchState[q].response.status = 404

\* A version string: a string with at least one character.
IsVersionString(v) == v.t = "string" /\ v.s # <<>>

\* C10: for all version strings A and B, isNewerVersion(A, B) and
\* isNewerVersion(B, A) are never both true, and isNewerVersion(A, A) is
\* false.
C10_Antisymmetric ==
  (pureResult.done /\ IsVersionString(pureFresh) /\ IsVersionString(pureCached)) =>
    /\ ~(pureResult.newer /\ pureResult.reverse)
    /\ pureFresh = pureCached => ~pureResult.newer

\* C10 witness: "1.0" against "1" compared: equal after padding, neither
\* newer.
C10_Witness ==
  /\ pureResult.done
  /\ pureFresh = Str(<<"1", ".", "0">>)
  /\ pureCached = Str(<<"1">>)
  /\ ~pureResult.newer
  /\ ~pureResult.reverse

\* The reference comparison: a segment is a non-negative decimal integer, or
\* counts as 0.
RefSegment(segs, i) ==
  IF i > Len(segs) THEN 0
  ELSE IF segs[i] # <<>> /\ AllDigits(segs[i]) THEN DecimalOf(segs[i])
  ELSE 0

\* The reference comparison of two version strings, each possibly absent:
\* the first position where the segments differ decides.
RefNewer(fresh, cached) ==
  IF cached = Null THEN TRUE
  ELSE IF fresh = Null THEN FALSE
  ELSE LET F == Split(fresh.s)
           C == Split(cached.s)
           differ == {i \in 1..Max(Len(F), Len(C)) : RefSegment(F, i) # RefSegment(C, i)}
       IN  /\ differ # {}
           /\ LET first == CHOOSE i \in differ : \A j \in differ : i <= j
              IN  RefSegment(F, first) > RefSegment(C, first)

\* An input of the comparison: absent, or a version string.
IsVersionInput(v) == v = Null \/ IsVersionString(v)

\* C11: for every pair of inputs, each a version string or absent,
\* isNewerVersion(fresh, cached) equals the reference dotted-integer
\* comparison: true when cached is absent, otherwise false when fresh is
\* absent, otherwise decided by the first position where the segments,
\* read as non-negative integers with missing or unparseable ones counted
\* as 0, differ, and false on a tie.
C11_MatchesReference ==
  (pureResult.done /\ IsVersionInput(pureFresh) /\ IsVersionInput(pureCached)) =>
    pureResult.newer = RefNewer(pureFresh, pureCached)

\* The five documented examples of C11.
C11_Examples ==
  pureResult.done =>
    /\ (pureFresh = Str(<<"1", ".", "2", ".", "3">>)
          /\ pureCached = Str(<<"1", ".", "2", ".", "4">>)) => ~pureResult.newer
    /\ (pureFresh = Str(<<"1", ".", "3", ".", "0">>)
          /\ pureCached = Str(<<"1", ".", "2", ".", "9">>)) => pureResult.newer
    /\ (pureFresh = Str(<<"1", ".", "2">>)
          /\ pureCached = Str(<<"1", ".", "2", ".", "0">>)) => ~pureResult.newer
    /\ (pureFresh = Str(<<"2">>) /\ pureCached = Null) => pureResult.newer
    /\ (pureFresh = Null
          /\ pureCached = Str(<<"1", ".", "0", ".", "0">>)) => ~pureResult.newer

\* The cache read found an entry for the request and the fetch then failed.
CachedFetchFailed(r) ==
  /\ Started(r)
  /\ cachedResponse[r] # None
  /\ fetchState[r].st = "rejected"

\* C12: in the feed strategy, and likewise in the others, when the cache
\* holds an entry for the request and the network fetch rejects, the
\* requester receives the cached entry, the invocation writes nothing to the
\* cache, and it posts no notification.
C12_CachedOnFetchFailure ==
  \A r \in Procs :
    CachedFetchFailed(r) =>
      /\ respondWith[r].st = "resolved"
      /\ respondWith[r].response = cachedResponse[r]
      /\ putState[r] = "none"
      /\ cacheWriter[request[r].url] # r
      /\ notifyState[r] = "none"
      /\ MessagesOf(r) = {}

\* C12 witness: a feed cached by an earlier request is served to a later
\* one whose fetch rejects, the entry still in the cache.
C12_Witness ==
  \E r \in Procs :
    /\ CachedFetchFailed(r)
    /\ strategy[r] = "feed"
    /\ request[r].url = FeedURL
    /\ respondWith[r].response = Response(200, FeedBody)
    /\ cache[FeedURL] = Response(200, FeedBody)

\* The manifest strategy's callback has finished for a fetch that resolved
\* with a 200.
ManifestFetched(r) ==
  /\ Started(r)
  /\ strategy[r] = "manifest"
  /\ fetchState[r].st = "resolved"
  /\ fetchState[r].response.status = 200
  /\ thenPc[r] = "done"

\* The fresh manifest parsed, a version was cached when the request started,
\* and the fresh version is not strictly newer than it.
ManifestNotNewer(r) ==
  /\ ManifestFetched(r)
  /\ fetchState[r].response.body.parses
  /\ cachedVersion[r] # Null
  /\ ~RefNewer(fetchState[r].response.body.version, cachedVersion[r])

\* C13: in the manifest strategy, when the fetch succeeds with a 200 and
\* the fresh manifest parses to a version that is not strictly newer than
\* the version cached at the start of the request (equal, older, or absent
\* while a cached version exists), the invocation leaves the cache entry as
\* it is and posts no MANIFEST_VERSION_UPDATED message; and a requester
\* without a cached entry receives the fetched response.
C13_NotNewerLeavesCache ==
  \A r \in Procs :
    /\ ManifestNotNewer(r) =>
         /\ putState[r] = "none"
         /\ cacheWriter[MANIFEST_URL] # r
         /\ notifyState[r] = "none"
         /\ MessagesOf(r) = {}
         /\ respondWith[r].st = "resolved"
    /\ (ManifestFetched(r) /\ cachedResponse[r] = None /\ pc[r] = "returned") =>
         /\ respondWith[r].st = "resolved"
         /\ respondWith[r].response = fetchState[r].response

\* C13 witness: version 2 cached, version 1 fetched, the entry still the
\* cached one; and another request, without a cached entry, answered with
\* the manifest it fetched.
C13_Witness ==
  \E r \in Procs : \E q \in Procs :
    /\ ManifestNotNewer(r)
    /\ cachedVersion[r] = Str(<<"2">>)
    /\ fetchState[r].response = Response(200, ManifestBody(Str(<<"1">>)))
    /\ cache[MANIFEST_URL] = Response(200, ManifestBody(Str(<<"2">>)))
    /\ ManifestFetched(q)
    /\ cachedResponse[q] = None
    /\ pc[q] = "returned"
    /\ respondWith[q].response = fetchState[q].response

\* The fresh manifest of a finished callback did not parse.
ManifestUnparsed(r) ==
  /\ ManifestFetched(r)
  /\ ~fetchState[r].response.body.parses

\* The invocation wrote the fetched response to the cache, posted nothing,
\* and the fetched response is what its fetch promise gave the requester.
WrittenUnannounced(r) ==
  /\ putState[r] \in {"pending", "landed"}
  /\ (putState[r] = "landed" /\ cacheWriter[MANIFEST_URL] = r) =>
       cache[MANIFEST_URL] = fetchState[r].response
  /\ notifyState[r] = "none"
  /\ MessagesOf(r) = {}
  /\ respondWith[r].st = "resolved"
  /\ cachedResponse[r] = None => respondWith[r].response = fetchState[r].response

CachedUnparsed(r) ==
  /\ strategy[r] = "manifest"
  /\ pc[r] = "returned"
  /\ cachedResponse[r] # None
  /\ ~cachedResponse[r].body.parses

\* The fresh manifest of a finished callback parsed and has a version.
FreshVersioned(r) ==
  /\ ManifestFetched(r)
  /\ fetchState[r].response.body.parses
  /\ fetchState[r].response.body.version # Null

FirstVersionMsg(r, c) ==
  [type |-> "MANIFEST_VERSION_UPDATED", client |-> c, fetchOf |-> r,
   newVersion |-> fetchState[r].response.body.version,
   oldVersion |-> Null]

\* C15: in the manifest strategy a cached manifest that cannot be parsed
\* counts as no cached version: the request does not fail and is answered
\* with the unparseable cached entry, and a successful fetch of a manifest
\* with a version is taken as newer, so that it is written over the cache
\* entry and announced to every client with an absent oldVersion.
C15_UnparsedCachedIsAbsent ==
  \A r \in Procs :
    CachedUnparsed(r) =>
      /\ cachedVersion[r] = Null
      /\ respondWith[r].st = "resolved"
      /\ respondWith[r].response = cachedResponse[r]
      /\ FreshVersioned(r) =>
           /\ putState[r] \in {"pending", "landed"}
           /\ (putState[r] = "landed" /\ cacheWriter[MANIFEST_URL] = r) =>
                cache[MANIFEST_URL] = fetchState[r].response
           /\ notifyState[r] \in {"matchAll", "delivered"}
           /\ notifyState[r] = "delivered" =>
                MessagesOf(r) = {FirstVersionMsg(r, c) : c \in Clients}

\* C15 witness: an unparseable entry served, version 1 fetched, written and
\* announced.
C15_Witness ==
  \E r \in Procs :
    /\ CachedUnparsed(r)
    /\ FreshVersioned(r)
    /\ respondWith[r].response = Response(200, FeedBody)
    /\ putState[r] = "landed"
    /\ cache[MANIFEST_URL] = Response(200, ManifestBody(Str(<<"1">>)))
    /\ notifyState[r] = "delivered"
    /\ \A c \in Clients : CopiesIn(FirstVersionMsg(r, c), messages) = 1

\* C16: clients are claimed only after every namespace other than the
\* current one has been deleted: in no reachable state has the worker
\* claimed its clients while a stale namespace still exists.
C16_ClaimAfterCleanup ==
  claimed => cacheNames \subseteq {CACHE_NAME}

ManifestOverwritten(r) ==
  /\ strategy[r] = "manifest"
  /\ putState[r] = "pending"
  /\ putState'[r] = "landed"
  /\ cache[MANIFEST_URL] # None
  /\ cache[MANIFEST_URL].body.parses
  /\ cache'[MANIFEST_URL].body.parses

\* C18 as stated: under any interleaving of invocations of the manifest
\* strategy the version of the cached manifest never decreases: no step
\* replaces a cached manifest by a parseable manifest whose version is older
\* than or equal to the one it replaces.
C18_VersionNeverDecreases ==
  [][\A r \in Procs :
       ManifestOverwritten(r) =>
         RefNewer(cache'[MANIFEST_URL].body.version,
                  cache[MANIFEST_URL].body.version)]_vars

\* The version a cached response gives: absent without a response, and for
\* a body that does not parse.
VersionRead(resp) ==
  IF resp # None /\ resp.body.parses THEN resp.body.version ELSE Null

\* C18 amended: a parseable manifest is written by an invocation only when
\* its version is strictly newer than the version that invocation read from
\* the cache at its start (or it read none).
C18_WritesNewerThanRead ==
  \A r \in Procs :
    (strategy[r] = "manifest" /\ putState[r] # "none"
       /\ fetchState[r].response.body.parses) =>
      /\ cachedVersion[r] = VersionRead(cachedResponse[r])
      /\ RefNewer(fetchState[r].response.body.version, cachedVersion[r])

\* C18 witness: two invocations started on an empty cache; one fetched and
\* wrote version 2, the other then wrote the version 1 it had fetched.
C18_Witness ==
  \E r \in Procs : \E q \in Procs :
    /\ strategy[r] = "manifest" /\ strategy[q] = "manifest"
    /\ cachedResponse[r] = None /\ cachedResponse[q] = None
    /\ request[r].method = "GET" /\ request[q].method = "GET"
    /\ putState[r] = "landed" /\ putState[q] = "landed"
    /\ fetchState[r].response = Response(200, ManifestBody(Str(<<"2">>)))
    /\ fetchState[q].response = Response(200, ManifestBody(Str(<<"1">>)))
    /\ cacheWriter[MANIFEST_URL] = q
    /\ cache[MANIFEST_URL] = Response(200, ManifestBody(Str(<<"1">>)))

\* The MANIFEST_VERSION_UPDATED messages posted so far.
VersionMessages ==
  {m \in BagToSet(messages) : m.type = "MANIFEST_VERSION_UPDATED"}

\* C19 as stated: every MANIFEST_VERSION_UPDATED message carries a present
\* newVersion, strictly newer than its oldVersion whenever that is present,
\* whatever the cached manifest (absent, unparseable, without version, with
\* version) and the fetched one (without version, with version).
C19_MessageVersions ==
  \A m \in VersionMessages :
    /\ m.newVersion # Null
    /\ m.oldVersion # Null => RefNewer(m.newVersion, m.oldVersion)

\* C19 amended: a message whose oldVersion is present carries a present
\* newVersion strictly newer than it; a message whose oldVersion is absent
\* carries the fetched manifest's version, present or absent.
C19_NewerThanPresentOld ==
  \A m \in VersionMessages :
    /\ m.oldVersion # Null =>
         /\ m.newVersion # Null
         /\ RefNewer(m.newVersion, m.oldVersion)
    /\ m.newVersion = fetchState[m.fetchOf].response.body.version
    /\ m.oldVersion = VersionRead(cachedResponse[m.fetchOf])

\* C19 witness: one fetch announced from version 1 to version 2, another
\* announced with both versions absent.
C19_Witness ==
  \E m \in VersionMessages : \E n \in VersionMessages :
    /\ m.oldVersion = Str(<<"1">>)
    /\ m.newVersion = Str(<<"2">>)
    /\ n.oldVersion = Null
    /\ n.newVersion = Null

====
